---- MODULE Spec2Model ----
(***************************************************************************)
(* BigKindsClient.generate_related_questions                               *)
(* (src/backend/api/clients/bigkinds/client.py, lines 826-1225): the       *)
(* keyword collection, filtering, scoring, clustering, recursive boolean   *)
(* query expansion and question ranking pipeline, as a state machine that  *)
(* takes one step per call that leaves the method (news search, keyword    *)
(* lookups, the clustering library).                                       *)
(*                                                                         *)
(* Strings are sequences of characters.  A Latin letter, digit, symbol or  *)
(* blank is the one-character string itself; a Hangul syllable of the      *)
(* source's literals is written as one element "k-<romanisation>", so two  *)
(* model strings are equal exactly when the Python strings are.            *)
(***************************************************************************)
EXTENDS Integers, Sequences, FiniteSets, TLC

(***************************************************************************)
(* Bounds of the model.                                                    *)
(***************************************************************************)
MaxQuestions == 4       \* max_questions ranges over 0..MaxQuestions
MaxDepth == 2           \* max_recursion_depth ranges over 0..MaxDepth
MaxClusterCount == 2    \* cluster_count ranges over 1..MaxClusterCount
MinArticles == 2        \* min_articles_per_query
MaxKeywords == 2        \* length of a related-keyword list returned
MaxOtherKeywords == 1   \* length of a top-N or popular list returned
MaxSubKeywords == 1     \* length of a sub-keyword list returned
MaxWideRelated == 3     \* length of a related-keyword list in KeywordSpec
MaxWideTopn == 2        \* length of a top-N list in KeywordSpec
MaxSwitches == 2      \* times a running invocation gives way before its end
LiveQuestions == 3    \* max_questions of the runs followed to their end
MaxWideClusterCount == 3    \* cluster_count in KeywordSpec

(***************************************************************************)
(* Program constants.                                                      *)
(***************************************************************************)
BroadArticleCount == 50     \* client.py:1135  article_count < 50
SubKeywordCount == 2        \* client.py:1145  sub_topn[:2]
TopKeywordLimit == 50       \* client.py:993   scored_keywords[:min(50, ...)]
LargeClusterSize == 5       \* client.py:1032  len(cluster_indices) >= 5

(***************************************************************************)
(* Characters.                                                             *)
(***************************************************************************)
UpperCase == {"A", "B", "C", "D", "N", "O", "R", "T"}
LowerCase == {"a", "b", "c", "d", "e", "n", "o", "r", "t"}
Digits == {"1", "2"}
Blanks == {" "}
Hangul == {"k-wa", "k-gwa", "k-e", "k-gwan", "k-han", "k-tto", "k-neun",
           "k-eul", "k-reul", "k-je", "k-oe", "k-dae", "k-hae", "k-al",
           "k-ryeo", "k-ju", "k-se", "k-yo", "k-ui", "k-choe", "k-geun",
           "k-dong", "k-hyang", "k-eun", "k-sin", "k-nyu", "k-seu",
           "k-i", "k-syu", "k-haek", "k-sim", "k-nae", "k-yong",
           "k-bun", "k-seok", "k-pil", "k-hap", "k-ni", "k-da",
           "k-deo", "k-ja", "k-hi", "k-go", "k-sip", "k-eo", "k-yeong",
           "k-mu", "k-eos", "k-in", "k-ga", "k-ryeon", "k-doen", "k-jung",
           "k-sa", "k-hang", "k-jeon", "k-mun", "k-gyeon"}

\* str.lower() on one character
LowerChar(c) ==
    CASE c = "A" -> "a"
      [] c = "B" -> "b"
      [] c = "C" -> "c"
      [] c = "D" -> "d"
      [] c = "N" -> "n"
      [] c = "O" -> "o"
      [] c = "R" -> "r"
      [] c = "T" -> "t"
      [] OTHER -> c

\* str.lower()
Lower(s) == [i \in 1..Len(s) |-> LowerChar(s[i])]

\* the regular-expression class \d
IsDigit(c) == c \in Digits
\* the regular-expression class \w (letters, digits, underscore; Hangul
\* syllables are letters)
IsWordChar(c) == c \in UpperCase \cup LowerCase \cup Digits \cup Hangul \cup {"_"}
\* the regular-expression class \s
IsSpace(c) == c \in Blanks

\* Python's  a in b  on strings
Contains(b, a) ==
    \E i \in 0..(Len(b) - Len(a)) : SubSeq(b, i + 1, i + Len(a)) = a

\* s[:n]
Take(s, n) == SubSeq(s, 1, IF n < Len(s) THEN n ELSE Len(s))

\* re.match(r'^\d+$', kw)
MatchesDigitsOnly(kw) == Len(kw) >= 1 /\ \A i \in 1..Len(kw) : IsDigit(kw[i])

\* re.match(r'^[^\w\s...]+$', kw): one or more characters, none of them a
\* word character, a blank or a Hangul syllable
MatchesSymbolsOnly(kw) ==
    /\ Len(kw) >= 1
    /\ \A i \in 1..Len(kw) :
          ~IsWordChar(kw[i]) /\ ~IsSpace(kw[i]) /\ kw[i] \notin Hangul

(***************************************************************************)
(* Literals of the source.                                                 *)
(***************************************************************************)
AndJoin == <<" ">>                                    \* client.py:1053
OrJoin == <<" ", "O", "R", " ">>                      \* client.py:1060
NotJoin == <<" ", "N", "O", "T", " ">>                \* client.py:1068
AndDescJoin == <<"k-wa", "(", "k-gwa", ")", " ">>     \* client.py:1054
OrDescJoin == <<" ", "k-tto", "k-neun", " ">>         \* client.py:1061
NotDescJoin == <<"k-eul", "(", "k-reul", ")", " ", "k-je", "k-oe", "k-han", " ">>
DescTail == <<"k-e", " ", "k-gwan", "k-han">>         \* "... about"

\* question_templates (client.py:1159-1170): what follows "{keyword}"
question_templates ==
    << <<"k-ui", " ", "k-choe", "k-geun", " ", "k-dong", "k-hyang", "k-eun", "?">>,
       <<"k-e", " ", "k-dae", "k-hae", " ", "k-al", "k-ryeo", "k-ju", "k-se", "k-yo">>,
       <<"k-e", " ", "k-gwan", "k-han", " ", "k-choe", "k-sin", " ", "k-nyu", "k-seu",
         "k-neun", "?">>,
       <<"k-ui", " ", "k-ju", "k-yo", " ", "k-i", "k-syu", "k-neun", "?">>,
       <<"k-ui", " ", "k-haek", "k-sim", " ", "k-nae", "k-yong", "k-eun", "?">>,
       <<"k-e", " ", "k-dae", "k-han", " ", "k-bun", "k-seok", "k-i", " ", "k-pil",
         "k-yo", "k-hap", "k-ni", "k-da">>,
       <<"k-e", " ", "k-dae", "k-hae", " ", "k-deo", " ", "k-ja", "k-se", "k-hi", " ",
         "k-al", "k-go", " ", "k-sip", "k-eo", "k-yo">>,
       <<"k-ui", " ", "k-yeong", "k-hyang", "k-eun", " ", "k-mu", "k-eos", "k-in",
         "k-ga", "k-yo", "?">>,
       <<"k-wa", " ", "k-gwan", "k-ryeon", "k-doen", " ", "k-jung", "k-yo", " ",
         "k-sa", "k-hang", "k-eun", "?">>,
       <<"k-e", " ", "k-dae", "k-han", " ", "k-jeon", "k-mun", "k-ga", " ", "k-ui",
         "k-gyeon", "k-eun", "?">> >>

\* the templates a query type may be rendered with (client.py:1177-1186):
\* one fixed template for AND, OR and NOT, any of the ten otherwise
TemplatesFor(type) ==
    CASE type = "AND" -> {question_templates[2]}
      [] type = "OR" -> {question_templates[1]}
      [] type = "NOT" -> {question_templates[3]}
      [] OTHER -> {question_templates[i] : i \in 1..Len(question_templates)}

(***************************************************************************)
(* 4-1. generate_query_variants (client.py:1047-1072)                      *)
(***************************************************************************)
\* a variant of NotVariantAllowed that compares without lower()
NotVariantAllowedCaseSensitive(base_keyword, expand_keyword) ==
    /\ ~Contains(expand_keyword, base_keyword)
    /\ ~Contains(base_keyword, expand_keyword)

\* client.py:1065
NotVariantAllowed(base_keyword, expand_keyword) ==
    /\ ~Contains(Lower(expand_keyword), Lower(base_keyword))
    /\ ~Contains(Lower(base_keyword), Lower(expand_keyword))

\* a variant of generate_query_variants whose first variant carries a type
\* the ranker has no template for
generate_query_variants_near(base_keyword, expand_keyword) ==
    << [type |-> "NEAR",
        query |-> base_keyword \o AndJoin \o expand_keyword,
        description |-> base_keyword \o AndDescJoin \o expand_keyword \o DescTail],
       [type |-> "OR",
        query |-> base_keyword \o OrJoin \o expand_keyword,
        description |-> base_keyword \o OrDescJoin \o expand_keyword \o DescTail] >>

generate_query_variants(base_keyword, expand_keyword) ==
    << [type |-> "AND",
        query |-> base_keyword \o AndJoin \o expand_keyword,
        description |-> base_keyword \o AndDescJoin \o expand_keyword \o DescTail],
       [type |-> "OR",
        query |-> base_keyword \o OrJoin \o expand_keyword,
        description |-> base_keyword \o OrDescJoin \o expand_keyword \o DescTail] >>
    \o (IF NotVariantAllowed(base_keyword, expand_keyword)
          THEN << [type |-> "NOT",
                   query |-> base_keyword \o NotJoin \o expand_keyword,
                   description |-> expand_keyword \o NotDescJoin \o base_keyword
                                       \o DescTail] >>
          ELSE << >>)

(***************************************************************************)
(* Scores.  A keyword score is the exact fraction num/den of the source's  *)
(* float: for ranks up to 4 the floats compare as the fractions do.        *)
(***************************************************************************)
FracLess(x, y) == x.num * y.den < y.num * x.den
FracAdd(x, y) == [num |-> x.num * y.den + y.num * x.den, den |-> x.den * y.den]

\* 1.5, 1.2 and 1.0 in tenths (client.py:903, 913, 923)
SourceWeight(source) ==
    CASE source = "related" -> 15
      [] source = "topn" -> 12
      [] source = "popular" -> 10

\* a variant of Annotate that weighs the keyword of rank r by 1/(r+1)
AnnotateRankPlusOne(keyword, kws, source) ==
    [idx \in 1..Len(kws) |->
        [keyword |-> kws[idx],
         source |-> source,
         rank |-> idx,
         weight |-> [num |-> SourceWeight(source), den |-> 10 * (idx + 1)],
         has_original |-> Contains(Lower(kws[idx]), Lower(keyword))]]

(***************************************************************************)
(* 2-1. all_keywords (client.py:896-925)                                   *)
(***************************************************************************)
Annotate(keyword, kws, source) ==
    [idx \in 1..Len(kws) |->
        [keyword |-> kws[idx],
         source |-> source,
         rank |-> idx,
         weight |-> [num |-> SourceWeight(source), den |-> 10 * idx],
         has_original |-> Contains(Lower(kws[idx]), Lower(keyword))]]

AllKeywords(keyword, related, topn, popular) ==
    Annotate(keyword, related, "related") \o Annotate(keyword, topn, "topn")
        \o Annotate(keyword, popular, "popular")

\* a variant of RejectedByFilter without the comparison with the seed
RejectedByFilterKeepSeed(keyword, kw) ==
    \/ Len(kw) < 2
    \/ MatchesDigitsOnly(kw)
    \/ MatchesSymbolsOnly(kw)

(***************************************************************************)
(* 2-2. the keyword filter (client.py:931-955)                             *)
(***************************************************************************)
RejectedByFilter(keyword, kw) ==
    \/ Len(kw) < 2
    \/ MatchesDigitsOnly(kw)
    \/ MatchesSymbolsOnly(kw)
    \/ Lower(kw) = Lower(keyword)

\* a variant of FilterFrom that does not consult seen_keywords
RECURSIVE FilterFromNoDedup(_, _, _, _, _)
FilterFromNoDedup(keyword, all, i, seen_keywords, filtered) ==
    IF i > Len(all) THEN filtered
    ELSE IF RejectedByFilter(keyword, all[i].keyword)
         THEN FilterFromNoDedup(keyword, all, i + 1, seen_keywords, filtered)
         ELSE FilterFromNoDedup(keyword, all, i + 1, seen_keywords,
                                Append(filtered, all[i]))

RECURSIVE FilterFrom(_, _, _, _, _)
FilterFrom(keyword, all, i, seen_keywords, filtered) ==
    IF i > Len(all) THEN filtered
    ELSE IF Lower(all[i].keyword) \in seen_keywords
              \/ RejectedByFilter(keyword, all[i].keyword)
         THEN FilterFrom(keyword, all, i + 1, seen_keywords, filtered)
         ELSE FilterFrom(keyword, all, i + 1,
                         seen_keywords \cup {Lower(all[i].keyword)},
                         Append(filtered, all[i]))

\* a variant of FilterKeywords that starts at the second candidate
FilterKeywordsSkipFirst(keyword, all) == FilterFrom(keyword, all, 2, {}, << >>)

FilterKeywords(keyword, all) == FilterFrom(keyword, all, 1, {}, << >>)

(***************************************************************************)
(* 2-3. the keyword scorer (client.py:965-993)                             *)
(***************************************************************************)
\* score = weight, times 1.3 when the keyword contains the seed
Contribution(kw_data) ==
    IF kw_data.has_original
        THEN [num |-> kw_data.weight.num * 13, den |-> kw_data.weight.den * 10]
        ELSE [num |-> kw_data.weight.num * 10, den |-> kw_data.weight.den * 10]

\* keyword_scores, a dict in insertion order, as a sequence of entries
RECURSIVE AccumulateScores(_, _, _)
AccumulateScores(filtered, i, keyword_scores) ==
    IF i > Len(filtered) THEN keyword_scores
    ELSE LET kw == filtered[i].keyword
             score == Contribution(filtered[i])
             at == {j \in 1..Len(keyword_scores) : keyword_scores[j].keyword = kw}
         IN  IF at # {}
               THEN AccumulateScores(filtered, i + 1,
                      [j \in 1..Len(keyword_scores) |->
                          IF j \in at
                            THEN [keyword |-> kw,
                                  score |-> FracAdd(keyword_scores[j].score, score)]
                            ELSE keyword_scores[j]])
               ELSE AccumulateScores(filtered, i + 1,
                      Append(keyword_scores, [keyword |-> kw, score |-> score]))

\* list.sort(key=score, reverse=True): stable, descending
RECURSIVE InsertByScore(_, _)
InsertByScore(sorted, item) ==
    IF sorted = << >> THEN << item >>
    ELSE IF FracLess(Head(sorted).score, item.score)
         THEN << item >> \o sorted
         ELSE << Head(sorted) >> \o InsertByScore(Tail(sorted), item)

RECURSIVE SortByScore(_, _, _)
SortByScore(items, i, sorted) ==
    IF i > Len(items) THEN sorted
    ELSE SortByScore(items, i + 1, InsertByScore(sorted, items[i]))

TopKeywords(filtered) ==
    Take(SortByScore(AccumulateScores(filtered, 1, << >>), 1, << >>), TopKeywordLimit)

KeywordTexts(top) == [i \in 1..Len(top) |-> top[i].keyword]

(***************************************************************************)
(* 3. clustering (client.py:997-1043).  The vectoriser and k-means belong  *)
(* to a library: every assignment of the keywords to clusters, and every   *)
(* member of a cluster as the one nearest its centre, is a possible        *)
(* outcome, and so is an exception.                                        *)
(***************************************************************************)
\* variants of SkipClustering: one that never skips, one that also skips
\* when there are as many keywords as clusters
SkipClusteringNever(keyword_texts, cluster_count) == FALSE
SkipClusteringAtEqual(keyword_texts, cluster_count) ==
    Len(keyword_texts) <= cluster_count

SkipClustering(keyword_texts, cluster_count) == Len(keyword_texts) < cluster_count

\* a variant of ClusterFallback that forgets to truncate
ClusterFallbackAll(top, cluster_count) == KeywordTexts(top)

\* the fallback of the except branch (client.py:1043)
ClusterFallback(top, cluster_count) == KeywordTexts(Take(top, cluster_count))

RECURSIVE RepresentativesFrom(_, _, _, _, _, _)
RepresentativesFrom(keyword_texts, labels, i, actual_clusters, max_q, reps) ==
    IF i > actual_clusters THEN {reps}
    ELSE LET cluster_indices == {x \in 1..Len(keyword_texts) : labels[x] = i}
         IN  IF cluster_indices = {}
               THEN RepresentativesFrom(keyword_texts, labels, i + 1,
                                        actual_clusters, max_q, reps)
               ELSE UNION {
                      LET reps1 == Append(reps, keyword_texts[most])
                          remaining == cluster_indices \ {most}
                      IN  IF Cardinality(cluster_indices) >= LargeClusterSize
                               /\ Len(reps1) < max_q /\ remaining # {}
                            THEN UNION {
                                   RepresentativesFrom(keyword_texts, labels, i + 1,
                                       actual_clusters, max_q,
                                       Append(reps1, keyword_texts[second]))
                                   : second \in remaining }
                            ELSE RepresentativesFrom(keyword_texts, labels, i + 1,
                                       actual_clusters, max_q, reps1)
                      : most \in cluster_indices }

ClusterRepresentatives(keyword_texts, cluster_count, max_q) ==
    LET actual_clusters == IF cluster_count < Len(keyword_texts)
                             THEN cluster_count ELSE Len(keyword_texts)
    IN  UNION { RepresentativesFrom(keyword_texts, labels, 1, actual_clusters,
                                    max_q, << >>)
                : labels \in [1..Len(keyword_texts) -> 1..actual_clusters] }

(***************************************************************************)
(* 5. the question ranker (client.py:1173-1222)                            *)
(***************************************************************************)
\* 1000 * ln(1 + article_count), rounded, for the article counts of the model
Ln1pMilli(n) ==
    CASE n = 0 -> 0
      [] n = 1 -> 693
      [] n = 2 -> 1099
      [] n = 3 -> 1386
      [] n = 4 -> 1609
      [] n = 5 -> 1792
      [] n = 49 -> 3912
      [] n = 50 -> 3932
      [] n = 51 -> 3951

\* a variant of QuestionScore that falls with the article count and rises
\* with the depth
QuestionScoreInverted(article_count, depth) ==
    420 * (4000 - Ln1pMilli(article_count)) + 1800000 - 1800000 \div (depth + 1)

\* 0.7 * (log1p(article_count) / 10) + 0.3 * (1 / (depth + 1)), in units of
\* 1/6000000: on the counts and depths of the model it orders as the float does
QuestionScore(article_count, depth) ==
    420 * Ln1pMilli(article_count) + 1800000 \div (depth + 1)

\* a variant of RenderFrom without the uniqueness check
RECURSIVE RenderFromKeepAll(_, _, _)
RenderFromKeepAll(expanded_queries, i, final_questions) ==
    IF i > Len(expanded_queries) THEN {final_questions}
    ELSE UNION {
           RenderFromKeepAll(expanded_queries, i + 1,
               Append(final_questions,
                      [expanded_queries[i] EXCEPT
                          !.question = expanded_queries[i].description \o template]))
           : template \in TemplatesFor(expanded_queries[i].type) }

\* 5-2: render each query, keep it when its question is new (first wins)
RECURSIVE RenderFrom(_, _, _)
RenderFrom(expanded_queries, i, final_questions) ==
    IF i > Len(expanded_queries) THEN {final_questions}
    ELSE UNION {
           LET question == expanded_queries[i].description \o template
           IN  IF \E j \in 1..Len(final_questions) :
                      final_questions[j].question = question
                 THEN RenderFrom(expanded_queries, i + 1, final_questions)
                 ELSE RenderFrom(expanded_queries, i + 1,
                        Append(final_questions,
                               [expanded_queries[i] EXCEPT !.question = question]))
           : template \in TemplatesFor(expanded_queries[i].type) }

\* 5-3: final_questions.sort(key=score, reverse=True): stable, descending
RECURSIVE InsertQuestion(_, _)
InsertQuestion(sorted, q) ==
    IF sorted = << >> THEN << q >>
    ELSE IF QuestionScore(Head(sorted).article_count, Head(sorted).depth)
              < QuestionScore(q.article_count, q.depth)
         THEN << q >> \o sorted
         ELSE << Head(sorted) >> \o InsertQuestion(Tail(sorted), q)

\* a variant of SortQuestions that leaves the list as it is
SortQuestionsKeepOrder(final_questions, i, sorted) == final_questions

RECURSIVE SortQuestions(_, _, _)
SortQuestions(final_questions, i, sorted) ==
    IF i > Len(final_questions) THEN sorted
    ELSE SortQuestions(final_questions, i + 1,
                       InsertQuestion(sorted, final_questions[i]))

\* final_questions[:max_questions] with ids from 1
ResultQuestions(final_questions, max_q) ==
    LET kept == Take(SortQuestions(final_questions, 1, << >>), max_q)
    IN  [idx \in 1..Len(kept) |->
            [id |-> idx,
             question |-> kept[idx].question,
             query |-> kept[idx].query,
             count |-> kept[idx].article_count,
             score |-> QuestionScore(kept[idx].article_count, kept[idx].depth),
             description |-> kept[idx].description]]

\* every list the ranker may return for the accumulated variants
RankedLists(expanded_queries, max_q) ==
    { ResultQuestions(final_questions, max_q) :
          final_questions \in RenderFrom(expanded_queries, 1, << >>) }

(***************************************************************************)
(* The inputs: seed keywords and what the news provider may answer.        *)
(***************************************************************************)
kwCD == <<"c", "d">>
kwE == <<"e">>
kwCDorE == kwCD \o OrDescJoin \o kwE
kwOrE == <<"k-tto", "k-neun", " ">> \o kwE
kwEorOrE == kwE \o OrDescJoin \o kwOrE
kwUpperAB == <<"A", "B">>
kwABc == <<"A", "B", "c">>
kwDigits == <<"1", "2">>

Seeds == {<<"a", "b">>}
RelatedPool == {kwCD, kwUpperAB}
TopnPool == {kwABc, kwCDorE}
PopularPool == {kwCD, kwDigits}
SubPool == {kwOrE, kwEorOrE}
\* a top-N answer longer than the two keywords the expansion uses
LongSubList == <<kwOrE, kwOrE, kwEorOrE>>

\* keywords that exercise the filter: another case of a keyword, blanks
\* only, symbols and blanks, symbols only
kwUpperCD == <<"C", "D">>
kwBlank == <<" ", " ">>
kwSymBlank == <<"#", " ", "#">>
kwSym == <<"#", "#">>
RelatedWide == {kwCD, kwABc, kwBlank, kwUpperAB}
TopnWide == {kwUpperCD, kwCDorE, kwSymBlank, kwSym}

\* the sequences over pool of length at most n
SeqsUpTo(pool, n) == UNION {[1..k -> pool] : k \in 0..n}

\* the keyword lists a sub-keyword lookup may return
SubLists == SeqsUpTo(SubPool, MaxSubKeywords) \cup {LongSubList}

\* the number of documents a search asked for return_size documents may
\* return: up to return_size, or (a provider that ignores it) many more
DocCounts(return_size) == (0..return_size) \cup {BroadArticleCount}
SeedSearchSize == 30        \* client.py:864

(***************************************************************************)
(* _make_request (client.py:39-122) ends in one of three ways: it raises   *)
(* (connection error, timeout, HTTP error status, body that is not JSON),  *)
(* it returns a decoded body that reports an error (result != 0, or no     *)
(* "success"), or it returns a decoded body with data.                     *)
(***************************************************************************)
Raises == [kind |-> "raise"]
ErrorBody == [kind |-> "error"]
SearchResponses(return_size) ==
    {Raises, ErrorBody}
        \cup {[kind |-> "ok", documents |-> n] : n \in DocCounts(return_size)}
WordResponses(lists) ==
    {Raises, ErrorBody} \cup {[kind |-> "ok", words |-> l] : l \in lists}

\* len(format_news_response(search_result).get("documents", [])): the
\* documents of a body with result 0, none otherwise
DocumentCount(response) ==
    IF response.kind = "ok" /\ "documents" \in DOMAIN response
        THEN response.documents ELSE 0

\* get_related_keywords / get_keyword_topn (client.py:232-315): the words of
\* a body with "success", the empty list otherwise
WordsOf(response) == IF response.kind = "ok" THEN response.words ELSE << >>

\* get_popular_keywords and client.py:889-892: the keywords of a body with
\* result 0, the empty list otherwise
PopularOf(response) == IF response.kind = "ok" THEN response.words ELSE << >>

(***************************************************************************)
(* The state of one invocation.                                            *)
(***************************************************************************)
VARIABLES
    keyword,                  \* the seed keyword
    max_questions,
    cluster_count,
    max_recursion_depth,
    min_articles_per_query,
    pc,                       \* the call the invocation is about to make
    related_keywords,
    topn_keywords,
    popular_keywords,
    filtered_keywords,
    top_keywords,
    clustering,               \* the branch taken at client.py:1000-1043
    representative_keywords,
    stack,                    \* the activations of explore_queries
    results,                  \* the list all activations accumulate
    result_questions,         \* the list returned
    calls,                    \* the kinds of external call issued so far
    last_call,                \* the last external call and how it was answered
    sub_lookups,              \* the number of sub-keyword lookups issued
    other,                    \* a second invocation on the client, suspended
    switches                  \* the number of switches between the two

vars == <<keyword, max_questions, cluster_count, max_recursion_depth,
          min_articles_per_query, pc, related_keywords, topn_keywords,
          popular_keywords, filtered_keywords, top_keywords, clustering,
          representative_keywords, stack, results, result_questions, calls,
          last_call, sub_lookups, other, switches>>

params == <<keyword, max_questions, cluster_count, max_recursion_depth,
            min_articles_per_query>>

\* what belongs to the second invocation
suspended == <<other, switches>>

\* no second invocation
NoInvocation == [pc |-> "none"]


Init ==
    /\ keyword \in Seeds
    /\ max_questions \in 0..MaxQuestions
    /\ cluster_count \in 1..MaxClusterCount
    /\ max_recursion_depth \in 0..MaxDepth
    /\ min_articles_per_query = MinArticles
    /\ pc = "search_seed"
    /\ related_keywords = << >>
    /\ topn_keywords = << >>
    /\ popular_keywords = << >>
    /\ filtered_keywords = << >>
    /\ top_keywords = << >>
    /\ clustering = "none"
    /\ representative_keywords = << >>
    /\ stack = << >>
    /\ results = << >>
    /\ result_questions = << >>
    /\ calls = {}
    /\ last_call = [kind |-> "none", answer |-> "none", documents |-> 0,
                    words |-> << >>]
    /\ sub_lookups = 0
    /\ other = NoInvocation
    /\ switches = 0

\* an external call is issued and answered; of the words returned the
\* record keeps those of a sub-keyword lookup (the others are locals)
Issue(kind, response) ==
    /\ calls' = calls \cup {kind}
    /\ last_call' = [kind |-> kind, answer |-> response.kind,
                     documents |-> DocumentCount(response),
                     words |-> IF kind = "sub_topn" /\ response.kind = "ok"
                                 THEN response.words ELSE << >>]
    /\ sub_lookups' = IF kind = "sub_topn" THEN sub_lookups + 1 ELSE sub_lookups

(***************************************************************************)
(* 4-2. explore_queries (client.py:1075-1152) as a stack of activations.   *)
(* An activation is at keyword ki of its list and variant vi of that       *)
(* keyword.  Advance runs the loops from there to the next variant that    *)
(* has to be searched, and yields the empty stack when the outermost       *)
(* activation has returned.                                                *)
(***************************************************************************)
\* a variant of Activation in which a recursive activation takes its first
\* keyword, not the accepted query, as base
ActivationBaseFromKeywords(base_keyword, keywords, depth) ==
    [base_keyword |-> IF depth = 0 THEN base_keyword ELSE keywords[1],
     keywords |-> keywords, depth |-> depth, ki |-> 1, vi |-> 1]

Activation(base_keyword, keywords, depth) ==
    [base_keyword |-> base_keyword, keywords |-> keywords, depth |-> depth,
     ki |-> 1, vi |-> 1]

Top(stk) == stk[Len(stk)]
Pop(stk) == SubSeq(stk, 1, Len(stk) - 1)

\* the variant the top activation is at
CurrentVariant(stk) ==
    generate_query_variants(Top(stk).base_keyword,
                            Top(stk).keywords[Top(stk).ki])[Top(stk).vi]

\* the loop of the top activation moves on to its next variant
NextVariant(stk) ==
    IF stk = << >> THEN stk
    ELSE Append(Pop(stk), [Top(stk) EXCEPT !.vi = @ + 1])

\* variants of ActivationEnds: without the budget checks, without the depth
\* check
ActivationEndsNoBudget(f, res, max_depth, max_q) ==
    \/ f.depth >= max_depth
    \/ f.ki > Len(f.keywords)

ActivationEndsNoDepth(f, res, max_depth, max_q) ==
    \/ Len(res) >= max_q
    \/ f.ki > Len(f.keywords)

\* the guards under which an activation returns or its loops break
\* (client.py:1080, 1084, 1089, 1097)
ActivationEnds(f, res, max_depth, max_q) ==
    \/ f.depth >= max_depth
    \/ Len(res) >= max_q
    \/ f.ki > Len(f.keywords)

\* a variant of AlreadyAccumulated that never finds the query
NeverAccumulated(res, query) == FALSE

\* client.py:1101
AlreadyAccumulated(res, query) == \E j \in 1..Len(res) : res[j].query = query

RECURSIVE Advance(_, _, _, _)
Advance(stk, res, max_depth, max_q) ==
    IF stk = << >> THEN stk
    ELSE LET f == Top(stk)
         IN  IF ActivationEnds(f, res, max_depth, max_q)
               THEN Advance(NextVariant(Pop(stk)), res, max_depth, max_q)
               ELSE LET variants ==
                          generate_query_variants(f.base_keyword, f.keywords[f.ki])
                    IN  IF f.vi > Len(variants)
                          THEN Advance(Append(Pop(stk),
                                          [f EXCEPT !.ki = @ + 1, !.vi = 1]),
                                       res, max_depth, max_q)
                          ELSE IF AlreadyAccumulated(res, variants[f.vi].query)
                                 THEN Advance(NextVariant(stk), res, max_depth, max_q)
                                 ELSE stk

\* a variant of RecursionGate without the budget test
RecursionGateNoBudget(depth, res, article_count, max_depth, max_q) ==
    /\ depth < max_depth - 1
    /\ article_count < BroadArticleCount

\* client.py:1133-1135: the accepted variant is expanded further
RecursionGate(depth, res, article_count, max_depth, max_q) ==
    /\ depth < max_depth - 1
    /\ Len(res) < max_q
    /\ article_count < BroadArticleCount

\* a variant of TrySubKeywords that keeps every word returned
TrySubKeywordsAll(response) ==
    [raised |-> FALSE,
     sub_keywords |-> IF response.kind = "raise" THEN << >>
                      ELSE WordsOf(response)]

\* a variant of TrySubKeywords without the except clause
TrySubKeywordsNoExcept(response) ==
    [raised |-> response.kind = "raise",
     sub_keywords |-> IF response.kind = "raise" THEN << >>
                      ELSE Take(WordsOf(response), SubKeywordCount)]

\* client.py:1137-1147: the lookup inside try/except.  What leaves the block:
\* no exception, and the first two words or, when the lookup raised, none
TrySubKeywords(response) ==
    [raised |-> FALSE,
     sub_keywords |-> IF response.kind = "raise" THEN << >>
                      ELSE Take(WordsOf(response), SubKeywordCount)]

\* variants of Accepts: one that wants more documents than the minimum, one
\* that wants none
AcceptsAbove(article_count, min_articles) == article_count > min_articles
AcceptsAny(article_count, min_articles) == TRUE

\* if article_count >= min_articles_per_query (client.py:1116)
Accepts(article_count, min_articles) == article_count >= min_articles

\* client.py:1120-1128
ResultItem(variant, article_count, depth) ==
    [query |-> variant.query,
     type |-> variant.type,
     description |-> variant.description,
     article_count |-> article_count,
     depth |-> depth,
     reference_titles |-> IF article_count < 3 THEN article_count ELSE 3,
     question |-> << >>]

(***************************************************************************)
(* The steps of generate_related_questions (client.py:826-1225).           *)
(***************************************************************************)
\* the exception leaves generate_related_questions: nothing is returned, and
\* the locals of the invocation are gone
Propagate ==
    /\ pc' = "raised"
    /\ related_keywords' = << >>
    /\ topn_keywords' = << >>
    /\ popular_keywords' = << >>
    /\ filtered_keywords' = << >>
    /\ top_keywords' = << >>
    /\ clustering' = "none"
    /\ representative_keywords' = << >>
    /\ stack' = << >>
    /\ results' = << >>
    /\ result_questions' = << >>

\* variants of the two emptiness tests that never see an empty list
NoDocumentsNever(response) == FALSE
NoKeywordSurvivesNever(filtered) == FALSE

\* if not formatted_news.get("documents") (client.py:868)
NoDocuments(response) == DocumentCount(response) = 0

\* if not filtered_keywords (client.py:958)
NoKeywordSurvives(filtered) == filtered = << >>

\* return [] (client.py:870, 960)
ReturnEmpty ==
    /\ pc' = "done"
    /\ result_questions' = << >>

\* a variant of Continue that starts the expansion again, from no variants,
\* when the outermost activation has returned
ContinueAgain(stk, res) ==
    LET next == Advance(stk, res, max_recursion_depth, max_questions)
    IN  /\ stack' = next
        /\ results' = IF next = << >> THEN << >> ELSE res
        /\ pc' = IF next = << >> THEN "explore" ELSE "search_variant"
        /\ UNCHANGED result_questions

\* the expansion goes on from stk with res accumulated: up to the next
\* variant search, or through the ranker to the return (client.py:1155-1225)
Continue(stk, res) ==
    LET next == Advance(stk, res, max_recursion_depth, max_questions)
    IN  /\ stack' = next
        /\ results' = res
        /\ IF next = << >>
             THEN /\ pc' = "done"
                  /\ result_questions' \in RankedLists(res, max_questions)
             ELSE /\ pc' = "search_variant"
                  /\ UNCHANGED result_questions

\* 1-1. the initial news search (client.py:860-870)
SearchSeed ==
    /\ pc = "search_seed"
    /\ \E response \in SearchResponses(SeedSearchSize) :
        /\ Issue("search_seed", response)
        /\ IF response.kind = "raise" THEN Propagate
          ELSE /\ IF NoDocuments(response)
                    THEN ReturnEmpty
                    ELSE pc' = "related" /\ UNCHANGED result_questions
               /\ UNCHANGED <<related_keywords, topn_keywords, popular_keywords,
                              filtered_keywords, top_keywords, clustering,
                              representative_keywords, stack, results>>
    /\ UNCHANGED params
    /\ UNCHANGED suspended

\* 1-2. the related-keyword lookup (client.py:873-878)
GetRelatedKeywords ==
    /\ pc = "related"
    /\ \E response \in WordResponses(SeqsUpTo(RelatedPool, MaxKeywords)) :
        /\ Issue("related", response)
        /\ IF response.kind = "raise" THEN Propagate
          ELSE /\ related_keywords' = WordsOf(response)
               /\ pc' = "topn"
               /\ UNCHANGED <<topn_keywords, popular_keywords, filtered_keywords,
                              top_keywords, clustering, representative_keywords,
                              stack, results, result_questions>>
    /\ UNCHANGED params
    /\ UNCHANGED suspended

\* 1-3. the top-N lookup (client.py:881-886)
GetKeywordTopN ==
    /\ pc = "topn"
    /\ \E response \in WordResponses(SeqsUpTo(TopnPool, MaxOtherKeywords)) :
        /\ Issue("topn", response)
        /\ IF response.kind = "raise" THEN Propagate
          ELSE /\ topn_keywords' = WordsOf(response)
               /\ pc' = "popular"
               /\ UNCHANGED <<related_keywords, popular_keywords, filtered_keywords,
                              top_keywords, clustering, representative_keywords,
                              stack, results, result_questions>>
    /\ UNCHANGED params
    /\ UNCHANGED suspended

\* 1-4 to 2-3. the popular-keyword lookup, then the filter and the scorer
\* (client.py:889-993)
GetPopularKeywords ==
    /\ pc = "popular"
    /\ \E response \in WordResponses(SeqsUpTo(PopularPool, MaxOtherKeywords)) :
        /\ Issue("popular", response)
        /\ IF response.kind = "raise" THEN Propagate
          ELSE LET popular == PopularOf(response)
                   filtered == FilterKeywords(keyword,
                                   AllKeywords(keyword, related_keywords,
                                               topn_keywords, popular))
               IN  /\ popular_keywords' = popular
                   /\ filtered_keywords' = filtered
                   /\ IF NoKeywordSurvives(filtered)
                        THEN ReturnEmpty /\ UNCHANGED top_keywords
                        ELSE /\ top_keywords' = TopKeywords(filtered)
                             /\ pc' = "cluster"
                             /\ UNCHANGED result_questions
                   /\ UNCHANGED <<related_keywords, topn_keywords, clustering,
                                  representative_keywords, stack, results>>
    /\ UNCHANGED params
    /\ UNCHANGED suspended

\* 3. the representative keywords (client.py:997-1043)
Cluster ==
    /\ pc = "cluster"
    /\ LET keyword_texts == KeywordTexts(top_keywords)
       IN  \E outcome \in {"skipped", "done", "failed"} :
             /\ (outcome = "skipped") <=> SkipClustering(keyword_texts, cluster_count)
             /\ clustering' = outcome
             /\ representative_keywords' \in
                  CASE outcome = "skipped" -> {keyword_texts}
                    [] outcome = "done" ->
                         ClusterRepresentatives(keyword_texts, cluster_count,
                                                max_questions)
                    [] outcome = "failed" ->
                         {ClusterFallback(top_keywords, cluster_count)}
    /\ pc' = "explore"
    /\ UNCHANGED <<related_keywords, topn_keywords, popular_keywords,
                   filtered_keywords, top_keywords, stack, results,
                   result_questions, calls, last_call, sub_lookups>>
    /\ UNCHANGED params
    /\ UNCHANGED suspended

\* 4-3. explore_queries(keyword, representative_keywords) up to its first
\* variant search (client.py:1155).  Nothing reads the locals of stages 1 to 3
\* from here on: they are dropped.
Explore ==
    /\ pc = "explore"
    /\ Continue(<< Activation(keyword, representative_keywords, 0) >>, << >>)
    /\ related_keywords' = << >>
    /\ topn_keywords' = << >>
    /\ popular_keywords' = << >>
    /\ filtered_keywords' = << >>
    /\ top_keywords' = << >>
    /\ clustering' = "none"
    /\ UNCHANGED <<representative_keywords, calls, last_call, sub_lookups>>
    /\ UNCHANGED params
    /\ UNCHANGED suspended

\* one variant search and what follows it up to the next external call
\* (client.py:1104-1135)
SearchVariant ==
    /\ pc = "search_variant"
    /\ \E response \in SearchResponses(min_articles_per_query) :
        /\ Issue("search_variant", response)
        /\ IF response.kind = "raise" THEN Propagate
          ELSE LET article_count == DocumentCount(response)
                   depth == Top(stack).depth
                   accepted == Append(results,
                                      ResultItem(CurrentVariant(stack),
                                                 article_count, depth))
               IN  /\ IF Accepts(article_count, min_articles_per_query)
                        THEN IF RecursionGate(depth, accepted, article_count,
                                              max_recursion_depth, max_questions)
                               THEN /\ pc' = "sub_topn"
                                    /\ results' = accepted
                                    /\ UNCHANGED <<stack, result_questions>>
                               ELSE Continue(NextVariant(stack), accepted)
                        ELSE Continue(NextVariant(stack), results)
                   /\ UNCHANGED <<related_keywords, topn_keywords,
                                  popular_keywords, filtered_keywords, top_keywords,
                                  clustering, representative_keywords>>
    /\ UNCHANGED params
    /\ UNCHANGED suspended

\* the sub-keyword lookup for the variant just accepted, and the recursive
\* call when it yields keywords (client.py:1137-1150)
SubTopN ==
    /\ pc = "sub_topn"
    /\ \E response \in WordResponses(SubLists) :
        /\ Issue("sub_topn", response)
        /\ LET tried == TrySubKeywords(response)
          IN  IF tried.raised
                THEN Propagate
                ELSE /\ IF tried.sub_keywords # << >>
                          THEN Continue(Append(stack,
                                          Activation(CurrentVariant(stack).query,
                                                     tried.sub_keywords,
                                                     Top(stack).depth + 1)),
                                        results)
                          ELSE Continue(NextVariant(stack), results)
                     /\ UNCHANGED <<related_keywords, topn_keywords,
                                    popular_keywords, filtered_keywords,
                                    top_keywords, clustering,
                                    representative_keywords>>
    /\ UNCHANGED params
    /\ UNCHANGED suspended

Next ==
    \/ SearchSeed
    \/ GetRelatedKeywords
    \/ GetKeywordTopN
    \/ GetPopularKeywords
    \/ Cluster
    \/ Explore
    \/ SearchVariant
    \/ SubTopN

Spec == Init /\ [][Next]_vars

\* every external call is answered, by a body or by an exception, and the
\* interpreter runs on: a step that can be taken is taken
LiveInit ==
    /\ Init
    /\ max_questions = LiveQuestions
    /\ max_recursion_depth = MaxDepth

LiveSpec == LiveInit /\ [][Next]_vars /\ WF_vars(Next)

(***************************************************************************)
(* Stages 1-4 to 3 alone, over wider keyword lists: the invocation has     *)
(* received its related and top-N keywords and goes on, through the        *)
(* popular-keyword lookup, the filter and the scorer, to the               *)
(* representative keywords.                                                *)
(***************************************************************************)
KeywordInit ==
    /\ keyword \in Seeds
    \* these stages read max_questions only to limit second representatives
    /\ max_questions \in (MaxQuestions - 1)..MaxQuestions
    /\ cluster_count \in 1..MaxWideClusterCount
    /\ max_recursion_depth = MaxDepth
    /\ min_articles_per_query = MinArticles
    /\ pc = "popular"
    /\ related_keywords \in SeqsUpTo(RelatedWide, MaxWideRelated)
    /\ topn_keywords \in SeqsUpTo(TopnWide, MaxWideTopn)
    /\ popular_keywords = << >>
    /\ filtered_keywords = << >>
    /\ top_keywords = << >>
    /\ clustering = "none"
    /\ representative_keywords = << >>
    /\ stack = << >>
    /\ results = << >>
    /\ result_questions = << >>
    /\ calls = {"search_seed", "related", "topn"}
    /\ last_call = [kind |-> "topn", answer |-> "ok", documents |-> 0,
                    words |-> << >>]
    /\ sub_lookups = 0
    /\ other = NoInvocation
    /\ switches = 0

KeywordNext ==
    \/ GetPopularKeywords
    \/ Cluster

KeywordSpec == KeywordInit /\ [][KeywordNext]_vars

(***************************************************************************)
(* Two invocations on one client.  generate_related_questions keeps what   *)
(* it works on in local variables and in the list explore_queries creates  *)
(* per outermost call (client.py:1076-1077); the client's attributes are   *)
(* assigned in __init__ only (client.py:31-37).  An invocation waiting for *)
(* an external call is suspended with its locals while the other runs.     *)
(***************************************************************************)
OtherSeed == <<"e">>

\* the locals of the running invocation
Locals ==
    [keyword |-> keyword, max_questions |-> max_questions,
     cluster_count |-> cluster_count,
     max_recursion_depth |-> max_recursion_depth,
     min_articles_per_query |-> min_articles_per_query,
     pc |-> pc, related_keywords |-> related_keywords,
     topn_keywords |-> topn_keywords, popular_keywords |-> popular_keywords,
     filtered_keywords |-> filtered_keywords, top_keywords |-> top_keywords,
     clustering |-> clustering,
     representative_keywords |-> representative_keywords,
     stack |-> stack, results |-> results,
     result_questions |-> result_questions,
     calls |-> calls, last_call |-> last_call, sub_lookups |-> sub_lookups]

\* the locals of an invocation that has been called and has not run yet
Called(seed, max_q, clusters, max_depth) ==
    [keyword |-> seed, max_questions |-> max_q, cluster_count |-> clusters,
     max_recursion_depth |-> max_depth,
     min_articles_per_query |-> MinArticles,
     pc |-> "search_seed", related_keywords |-> << >>,
     topn_keywords |-> << >>, popular_keywords |-> << >>,
     filtered_keywords |-> << >>, top_keywords |-> << >>,
     clustering |-> "none", representative_keywords |-> << >>,
     stack |-> << >>, results |-> << >>, result_questions |-> << >>,
     calls |-> {},
     last_call |-> [kind |-> "none", answer |-> "none", documents |-> 0,
                    words |-> << >>],
     sub_lookups |-> 0]

\* a variant of Resume in which the accumulated variants are one list that
\* both invocations append to
ResumeSharedResults(saved) ==
    /\ keyword' = saved.keyword
    /\ max_questions' = saved.max_questions
    /\ cluster_count' = saved.cluster_count
    /\ max_recursion_depth' = saved.max_recursion_depth
    /\ min_articles_per_query' = saved.min_articles_per_query
    /\ pc' = saved.pc
    /\ related_keywords' = saved.related_keywords
    /\ topn_keywords' = saved.topn_keywords
    /\ popular_keywords' = saved.popular_keywords
    /\ filtered_keywords' = saved.filtered_keywords
    /\ top_keywords' = saved.top_keywords
    /\ clustering' = saved.clustering
    /\ representative_keywords' = saved.representative_keywords
    /\ stack' = saved.stack
    /\ results' = results
    /\ result_questions' = saved.result_questions
    /\ calls' = saved.calls
    /\ last_call' = saved.last_call
    /\ sub_lookups' = saved.sub_lookups

\* the suspended invocation runs on with the locals it was suspended with
Resume(saved) ==
    /\ keyword' = saved.keyword
    /\ max_questions' = saved.max_questions
    /\ cluster_count' = saved.cluster_count
    /\ max_recursion_depth' = saved.max_recursion_depth
    /\ min_articles_per_query' = saved.min_articles_per_query
    /\ pc' = saved.pc
    /\ related_keywords' = saved.related_keywords
    /\ topn_keywords' = saved.topn_keywords
    /\ popular_keywords' = saved.popular_keywords
    /\ filtered_keywords' = saved.filtered_keywords
    /\ top_keywords' = saved.top_keywords
    /\ clustering' = saved.clustering
    /\ representative_keywords' = saved.representative_keywords
    /\ stack' = saved.stack
    /\ results' = saved.results
    /\ result_questions' = saved.result_questions
    /\ calls' = saved.calls
    /\ last_call' = saved.last_call
    /\ sub_lookups' = saved.sub_lookups

\* at an external call, or at its end, the running invocation gives way to
\* the suspended one
Switch ==
    /\ other.pc \notin {"none", "done", "raised"}
    /\ pc \in {"done", "raised"} \/ switches < MaxSwitches
    /\ Resume(other)
    /\ other' = Locals
    /\ switches' = IF pc \in {"done", "raised"} THEN switches ELSE switches + 1

\* the running invocation has the locals given
Running(saved) ==
    /\ keyword = saved.keyword
    /\ max_questions = saved.max_questions
    /\ cluster_count = saved.cluster_count
    /\ max_recursion_depth = saved.max_recursion_depth
    /\ min_articles_per_query = saved.min_articles_per_query
    /\ pc = saved.pc
    /\ related_keywords = saved.related_keywords
    /\ topn_keywords = saved.topn_keywords
    /\ popular_keywords = saved.popular_keywords
    /\ filtered_keywords = saved.filtered_keywords
    /\ top_keywords = saved.top_keywords
    /\ clustering = saved.clustering
    /\ representative_keywords = saved.representative_keywords
    /\ stack = saved.stack
    /\ results = saved.results
    /\ result_questions = saved.result_questions
    /\ calls = saved.calls
    /\ last_call = saved.last_call
    /\ sub_lookups = saved.sub_lookups

\* two calls: one for two questions, one with another seed for one question
ConcurrentInit ==
    /\ \E seed \in Seeds : Running(Called(seed, 2, 1, MaxDepth))
    /\ other = Called(OtherSeed, 1, 1, MaxDepth)
    /\ switches = 0

ConcurrentNext ==
    \/ SearchSeed
    \/ GetRelatedKeywords
    \/ GetKeywordTopN
    \/ GetPopularKeywords
    \/ Cluster
    \/ Explore
    \/ SearchVariant
    \/ SubTopN
    \/ Switch

ConcurrentSpec == ConcurrentInit /\ [][ConcurrentNext]_vars

(***************************************************************************)
(* Vocabulary of the properties.                                           *)
(***************************************************************************)
Returned == pc = "done"
Failed == pc = "raised"
ExpansionCalls == {"search_variant", "sub_topn"}

\* a occurs in b when case is ignored
CiSubstring(a, b) ==
    \E off \in 0..(Len(b) - Len(a)) :
        \A j \in 1..Len(a) : LowerChar(a[j]) = LowerChar(b[off + j])

\* the question an accepted variant of type AND, OR or NOT is rendered to
RenderedQuestion(r) ==
    r.description \o
        (CASE r.type = "AND" -> question_templates[2]
           [] r.type = "OR" -> question_templates[1]
           [] r.type = "NOT" -> question_templates[3])

\* the (base, expansion keyword) pairs a NOT result may stem from
NotOrigins(r) ==
    { pair \in { [base |-> SubSeq(r.query, 1, n),
                  kw |-> SubSeq(r.query, n + Len(NotJoin) + 1, Len(r.query))]
                 : n \in 0..(Len(r.query) - Len(NotJoin)) } :
        /\ r.query = pair.base \o NotJoin \o pair.kw
        /\ r.description = pair.kw \o NotDescJoin \o pair.base \o DescTail }

(***************************************************************************)
(* C1.  Budget: the list explore_queries accumulates never holds more than *)
(* max_questions variants, at any point of the expansion and inside        *)
(* recursive activations, and the returned list holds at most              *)
(* max_questions questions.                                                *)
(***************************************************************************)
C1_Budget ==
    /\ Len(results) <= max_questions
    /\ Len(result_questions) <= max_questions

\* a run that filled a budget of at least two, partly from a recursive call
C1_Witness ==
    /\ Returned
    /\ max_questions >= 2
    /\ Len(results) = max_questions
    /\ Len(result_questions) = max_questions
    /\ \E i \in 1..Len(results) : results[i].depth >= 1

(***************************************************************************)
(* C2.  Depth bound: a variant search or a sub-keyword lookup is only      *)
(* about to be issued by an activation of depth < max_recursion_depth, and *)
(* every accepted variant has 0 <= depth < max_recursion_depth.            *)
(***************************************************************************)
C2_DepthBound ==
    /\ pc \in ExpansionCalls => Top(stack).depth < max_recursion_depth
    /\ \A i \in 1..Len(results) :
          results[i].depth >= 0 /\ results[i].depth < max_recursion_depth

\* a search about to be issued at the deepest level allowed, below an
\* accepted variant
C2_Witness ==
    /\ pc = "search_variant"
    /\ max_recursion_depth >= 2
    /\ Top(stack).depth = max_recursion_depth - 1
    /\ \E i \in 1..Len(results) : results[i].depth = max_recursion_depth - 2

(***************************************************************************)
(* C3.  Query uniqueness: no two accumulated variants have the same query  *)
(* string, and the variant about to be searched is never one whose query   *)
(* is already accumulated.                                                 *)
(***************************************************************************)
C3_QueryUnique ==
    /\ \A i, j \in 1..Len(results) : i # j => results[i].query # results[j].query
    /\ pc = "search_variant" =>
          \A j \in 1..Len(results) : results[j].query # CurrentVariant(stack).query

\* the run visited every variant (the budget was not reached); the AND
\* variant of the seed and the second representative has the query a
\* variant accepted at depth 1 has: it was passed over
C3_Witness ==
    /\ Returned
    /\ Len(results) < max_questions
    /\ Len(representative_keywords) = 2
    /\ \E i \in 1..Len(results) :
          /\ results[i].depth = 1
          /\ results[i].query = keyword \o AndJoin \o representative_keywords[2]

(***************************************************************************)
(* C4.  Question uniqueness: no two returned questions have the same text; *)
(* of the accepted variants that render to one question, the one accepted  *)
(* first is returned and the others are not.                               *)
(***************************************************************************)
C4_QuestionUnique ==
    Returned =>
        /\ \A k, l \in 1..Len(result_questions) :
              k # l => result_questions[k].question # result_questions[l].question
        /\ \A i \in 1..Len(results) :
              (\E k \in 1..Len(result_questions) :
                    /\ result_questions[k].query = results[i].query
                    /\ result_questions[k].question = RenderedQuestion(results[i]))
              <=> (\A j \in 1..(i - 1) :
                      RenderedQuestion(results[j]) # RenderedQuestion(results[i]))

\* two accepted variants with different queries rendered to one question
C4_Witness ==
    /\ Returned
    /\ Len(result_questions) >= 2
    /\ \E i, j \in 1..Len(results) :
          /\ i < j
          /\ RenderedQuestion(results[i]) = RenderedQuestion(results[j])

(***************************************************************************)
(* C5.  NOT-variant exclusion: for every base and expansion keyword of     *)
(* every activation, a NOT variant is generated exactly when neither is a  *)
(* case-insensitive substring of the other; no accepted NOT variant stems  *)
(* from a pair in which one contains the other.                            *)
(***************************************************************************)
C5_NotExclusion ==
    /\ \A n \in 1..Len(stack) :
          \A k \in 1..Len(stack[n].keywords) :
              LET base == stack[n].base_keyword
                  kw == stack[n].keywords[k]
                  variants == generate_query_variants(base, kw)
              IN  (\E v \in 1..Len(variants) : variants[v].type = "NOT")
                    <=> (~CiSubstring(base, kw) /\ ~CiSubstring(kw, base))
    /\ \A i \in 1..Len(results) :
          results[i].type = "NOT" =>
              \A pair \in NotOrigins(results[i]) :
                  ~CiSubstring(pair.base, pair.kw) /\ ~CiSubstring(pair.kw, pair.base)

\* an activation holds a keyword that contains its base in another case, and
\* a NOT variant of another keyword was accepted
C5_Witness ==
    /\ \E n \in 1..Len(stack) :
          \E k \in 1..Len(stack[n].keywords) :
              /\ CiSubstring(stack[n].base_keyword, stack[n].keywords[k])
              /\ ~Contains(stack[n].keywords[k], stack[n].base_keyword)
    /\ \E i \in 1..Len(results) : results[i].type = "NOT"

(***************************************************************************)
(* C6.  Empty-seed short-circuit: when the initial search yields no        *)
(* document, the empty list is returned, the initial search is the only    *)
(* external call issued, and nothing follows.                              *)
(***************************************************************************)
C6_EmptySeed ==
    (/\ last_call.kind = "search_seed"
     /\ last_call.answer # "raise"
     /\ last_call.documents = 0)
    => /\ Returned
       /\ result_questions = << >>
       /\ calls = {"search_seed"}
       /\ ~ENABLED Next

\* the initial search was answered with an empty document list
C6_Witness ==
    /\ Returned
    /\ last_call = [kind |-> "search_seed", answer |-> "ok", documents |-> 0,
                    words |-> << >>]

(***************************************************************************)
(* C7.  When no candidate keyword survives the filter, the empty list is   *)
(* returned and no variant search and no sub-keyword lookup is issued.     *)
(***************************************************************************)
C7_NoSurvivor ==
    (/\ last_call.kind = "popular"
     /\ last_call.answer # "raise"
     /\ filtered_keywords = << >>
     /\ representative_keywords = << >>)
    => /\ Returned
       /\ result_questions = << >>
       /\ calls \cap ExpansionCalls = {}
       /\ ~ENABLED Next

\* the sources returned keywords and the filter rejected every one
C7_Witness ==
    /\ Returned
    /\ last_call.kind = "popular"
    /\ related_keywords # << >>
    /\ popular_keywords # << >>
    /\ filtered_keywords = << >>

(***************************************************************************)
(* C8.  Top-level external failures are not recovered: when the initial    *)
(* search, the related-keyword, top-N or popular-keyword lookup or a       *)
(* variant search fails (it raises, or its body reports an error), no list *)
(* is returned and the failure reaches the caller.                         *)
(***************************************************************************)
C8_FailuresPropagate ==
    (/\ last_call.kind \in {"search_seed", "related", "topn", "popular",
                            "search_variant"}
     /\ last_call.answer \in {"raise", "error"})
    => Failed

(***************************************************************************)
(* C9.  A sub-keyword lookup that fails is not fatal: the variant it was   *)
(* issued for stays accumulated, no activation is opened on it, the        *)
(* expansion goes on or ends, and a list is returned.                      *)
(***************************************************************************)
C9_SubLookupFailure ==
    (last_call.kind = "sub_topn" /\ last_call.answer = "raise")
    => /\ ~Failed
       /\ pc \in {"search_variant", "done"}
       /\ results # << >>
       /\ \A n \in 1..Len(stack) :
             stack[n].base_keyword # results[Len(results)].query
       /\ Returned => Len(result_questions) >= 1

\* the lookup raised and the expansion is about to search the next variant
C9_Witness ==
    /\ last_call.kind = "sub_topn"
    /\ last_call.answer = "raise"
    /\ pc = "search_variant"

(***************************************************************************)
(* C10.  A clustering failure does not end the run: the representative     *)
(* keywords are the first cluster_count scored keywords, the scored        *)
(* keywords being in descending order of score, and the run is about to    *)
(* expand them.                                                            *)
(***************************************************************************)
C10_ClusterFallback ==
    clustering = "failed"
    => /\ pc = "explore"
       /\ \A i, j \in 1..Len(top_keywords) :
             i < j => ~FracLess(top_keywords[i].score, top_keywords[j].score)
       /\ Len(representative_keywords) =
             (IF cluster_count < Len(top_keywords)
                THEN cluster_count ELSE Len(top_keywords))
       /\ \A i \in 1..Len(representative_keywords) :
             representative_keywords[i] = top_keywords[i].keyword

\* clustering failed with more scored keywords than clusters, the best
\* scored keyword not being the first one collected
C10_Witness ==
    /\ clustering = "failed"
    /\ Len(top_keywords) > cluster_count
    /\ top_keywords[1].keyword # filtered_keywords[1].keyword

(***************************************************************************)
(* Vocabulary of the properties of the keyword stages.                     *)
(***************************************************************************)
\* the filter and the scorer have run on the lists of the state
Filtered == last_call.kind = "popular" /\ last_call.answer # "raise"

\* a and b are the same text when case is ignored
CiEqual(a, b) ==
    Len(a) = Len(b) /\ \A j \in 1..Len(a) : LowerChar(a[j]) = LowerChar(b[j])

HasWordChar(kw) == \E j \in 1..Len(kw) : IsWordChar(kw[j])

\* the candidates in the order related, top-N, popular
Candidates ==
    AllKeywords(keyword, related_keywords, topn_keywords, popular_keywords)

\* the list a candidate's source returned
SourceList(source) ==
    CASE source = "related" -> related_keywords
      [] source = "topn" -> topn_keywords
      [] source = "popular" -> popular_keywords

\* a fraction in units of 1/1200 (the denominators of the model divide it)
InUnits(x) == (x.num * 1200) \div x.den

\* the sum, in units of 1/1200, of the contributions of the candidates from
\* the i-th on whose text is kw when case is ignored
RECURSIVE ContributionsOf(_, _, _)
ContributionsOf(all, kw, i) ==
    IF i > Len(all) THEN 0
    ELSE (IF CiEqual(all[i].keyword, kw) THEN InUnits(Contribution(all[i])) ELSE 0)
            + ContributionsOf(all, kw, i + 1)

\* source weight constant x 1/divisor, x 1.3 when the text contains the seed
StatedContribution(f, divisor) ==
    [num |-> (CASE f.source = "related" -> 15
                [] f.source = "topn" -> 12
                [] f.source = "popular" -> 10)
             * (IF CiSubstring(keyword, f.keyword) THEN 13 ELSE 10),
     den |-> 100 * divisor]

FracEqual(x, y) == x.num * y.den = y.num * x.den

\* the accepted variant a returned question was rendered from
VariantOf(q) ==
    results[CHOOSE i \in 1..Len(results) : results[i].query = q.query]

(***************************************************************************)
(* C11.  The representative keywords number at most cluster_count, also    *)
(* when a cluster of five or more members contributes a second one.        *)
(***************************************************************************)
C11_RepresentativeBound ==
    Len(representative_keywords) <= cluster_count

(***************************************************************************)
(* C12.  The filter drops the seed: no surviving keyword, and so no        *)
(* representative keyword, equals the seed when case is ignored.           *)
(***************************************************************************)
C12_SeedDropped ==
    Filtered =>
        /\ \A i \in 1..Len(filtered_keywords) :
              ~CiEqual(filtered_keywords[i].keyword, keyword)
        /\ \A i \in 1..Len(representative_keywords) :
              ~CiEqual(representative_keywords[i], keyword)

\* a source returned the seed in another case, other keywords survived and
\* representatives were chosen
C12_Witness ==
    /\ pc = "explore"
    /\ representative_keywords # << >>
    /\ \E i \in 1..Len(related_keywords) :
          /\ CiEqual(related_keywords[i], keyword)
          /\ related_keywords[i] # keyword

(***************************************************************************)
(* C13.  Every keyword that survives the filter contains a word character  *)
(* or a Hangul syllable: keywords of symbols, of symbols and blanks, or of *)
(* blanks only are rejected.                                               *)
(***************************************************************************)
C13_SurvivorsHaveWordChar ==
    Filtered =>
        \A i \in 1..Len(filtered_keywords) :
            HasWordChar(filtered_keywords[i].keyword)

(***************************************************************************)
(* C14.  Filter deduplication: no two survivors have the same text when    *)
(* case is ignored; each survivor is the first candidate of its text in    *)
(* the order related, top-N, popular, with that candidate's source, rank   *)
(* and weight; and the first candidate of a text survives unless the text  *)
(* is rejected.                                                            *)
(***************************************************************************)
C14_FirstOccurrenceSurvives ==
    Filtered =>
        LET all == Candidates
            first == {c \in 1..Len(all) :
                         \A b \in 1..(c - 1) :
                             ~CiEqual(all[b].keyword, all[c].keyword)}
        IN  /\ \A i, j \in 1..Len(filtered_keywords) :
                  i # j => ~CiEqual(filtered_keywords[i].keyword,
                                    filtered_keywords[j].keyword)
            /\ \A i \in 1..Len(filtered_keywords) :
                  /\ \E c \in first : all[c] = filtered_keywords[i]
                  /\ SourceList(filtered_keywords[i].source)
                         [filtered_keywords[i].rank] = filtered_keywords[i].keyword
            /\ \A c \in first :
                  ~RejectedByFilter(keyword, all[c].keyword)
                  => \E i \in 1..Len(filtered_keywords) :
                         filtered_keywords[i] = all[c]

\* a keyword of the related list came again, in another case, in the top-N
\* list and, in the same case, in the popular list; the related one survived
C14_Witness ==
    /\ Filtered
    /\ \E i \in 1..Len(filtered_keywords) :
          /\ filtered_keywords[i].source = "related"
          /\ \E t \in 1..Len(topn_keywords) :
                /\ CiEqual(topn_keywords[t], filtered_keywords[i].keyword)
                /\ topn_keywords[t] # filtered_keywords[i].keyword
          /\ \E q \in 1..Len(popular_keywords) :
                popular_keywords[q] = filtered_keywords[i].keyword

(***************************************************************************)
(* C15.  Idempotence of filtering: the filter applied to its own output,   *)
(* with the same seed, returns that output unchanged and in the same       *)
(* order.                                                                  *)
(***************************************************************************)
C15_FilterIdempotent ==
    Filtered =>
        FilterKeywords(keyword, filtered_keywords) = filtered_keywords

\* the filter removed candidates and kept at least two
C15_Witness ==
    /\ Filtered
    /\ Len(filtered_keywords) >= 2
    /\ Len(filtered_keywords) < Len(Candidates)

(***************************************************************************)
(* C16.  Score accumulation across sources: the score of a scored keyword  *)
(* is the sum of the contributions of every candidate that has its text    *)
(* when case is ignored, from every source.                                *)
(***************************************************************************)
C16_ScoreSumsSources ==
    Filtered =>
        LET all == Candidates
        IN  \A i \in 1..Len(top_keywords) :
                InUnits(top_keywords[i].score)
                    = ContributionsOf(all, top_keywords[i].keyword, 1)

C18_RankedOrder ==
    Returned =>
        /\ \A k, l \in 1..Len(result_questions) :
              k < l => result_questions[k].score >= result_questions[l].score
        /\ \A k \in 1..Len(result_questions) : result_questions[k].id = k

\* every accepted variant was returned, and a deeper one was accepted
\* before a shallower one of the same article count
C18_Witness ==
    /\ Returned
    /\ Len(result_questions) = Len(results)
    /\ \E i, j \in 1..Len(results) :
          /\ i < j
          /\ results[i].depth > results[j].depth
          /\ results[i].article_count = results[j].article_count

(***************************************************************************)
(* C19.  The returned questions have strictly descending scores: no two    *)
(* questions of one returned list have the same score.                     *)
(***************************************************************************)
C19_StrictlyDescending ==
    Returned =>
        \A k, l \in 1..Len(result_questions) :
            k < l => result_questions[k].score > result_questions[l].score

(***************************************************************************)
(* C20.  Score monotonicity: of two returned questions whose variants have *)
(* the same depth, the one with more articles does not have the lower      *)
(* score; of two with the same article count, the one of lower depth does  *)
(* not have the lower score.                                               *)
(***************************************************************************)
C20_ScoreMonotone ==
    Returned =>
        \A k, l \in 1..Len(result_questions) :
            LET a == VariantOf(result_questions[k])
                b == VariantOf(result_questions[l])
            IN  /\ (a.depth = b.depth /\ a.article_count > b.article_count)
                      => result_questions[k].score >= result_questions[l].score
                /\ (a.article_count = b.article_count /\ a.depth < b.depth)
                      => result_questions[k].score >= result_questions[l].score

\* a returned list with two variants of one depth and different article
\* counts, and two of one article count and different depths
C20_Witness ==
    /\ Returned
    /\ \E k, l \in 1..Len(result_questions) :
          /\ VariantOf(result_questions[k]).depth = VariantOf(result_questions[l]).depth
          /\ result_questions[k].count > result_questions[l].count
    /\ \E k, l \in 1..Len(result_questions) :
          /\ result_questions[k].count = result_questions[l].count
          /\ VariantOf(result_questions[k]).depth < VariantOf(result_questions[l]).depth

(***************************************************************************)
(* C22.  Acceptance threshold: a variant enters the accumulated results    *)
(* exactly when it was searched and the search returned at least           *)
(* min_articles_per_query documents; a variant below the threshold is not  *)
(* added and opens no sub-keyword lookup or activation; every returned     *)
(* question has count >= min_articles_per_query.                           *)
(***************************************************************************)
C22_SearchStep ==
    (pc = "search_variant" /\ pc' # "raised") =>
        LET documents == last_call'.documents
        IN  IF documents >= min_articles_per_query
              THEN /\ Len(results') = Len(results) + 1
                   /\ SubSeq(results', 1, Len(results)) = results
                   /\ results'[Len(results')].query = CurrentVariant(stack).query
                   /\ results'[Len(results')].article_count = documents
              ELSE /\ results' = results
                   /\ pc' # "sub_topn"
                   /\ Len(stack') <= Len(stack)

C22_OtherStep ==
    (pc # "search_variant" /\ pc' # "raised") => results' = results

C22_AcceptanceThreshold ==
    /\ [](\A i \in 1..Len(results) :
             results[i].article_count >= min_articles_per_query)
    /\ [](\A k \in 1..Len(result_questions) :
             result_questions[k].count >= min_articles_per_query)
    /\ [][C22_SearchStep /\ C22_OtherStep]_vars

\* a search that found documents, but fewer than the minimum, after a
\* variant had been accepted: the expansion is at the next variant
C22_Witness ==
    /\ pc = "search_variant"
    /\ last_call.kind = "search_variant"
    /\ last_call.answer = "ok"
    /\ last_call.documents > 0
    /\ last_call.documents < min_articles_per_query
    /\ results # << >>

(***************************************************************************)
(* C23.  Recursion trigger: a sub-keyword lookup is issued only directly   *)
(* after the search that accepted a variant, with depth+1 below            *)
(* max_recursion_depth, the results below max_questions and the variant's  *)
(* article count below 50; an activation is opened only by a lookup that   *)
(* returned at least one keyword, with the variant's query as base,        *)
(* depth+1, and the first two keywords returned at most.                   *)
(***************************************************************************)
C23_Lookup ==
    pc = "sub_topn" =>
        /\ last_call.kind = "search_variant"
        /\ results # << >>
        /\ results[Len(results)].query = CurrentVariant(stack).query
        /\ results[Len(results)].article_count = last_call.documents
        /\ results[Len(results)].depth = Top(stack).depth
        /\ Top(stack).depth + 1 < max_recursion_depth
        /\ Len(results) < max_questions
        /\ results[Len(results)].article_count < 50

C23_Activations ==
    \A n \in 2..Len(stack) :
        /\ stack[n].depth = stack[n - 1].depth + 1
        /\ stack[n].depth < max_recursion_depth
        /\ Len(stack[n].keywords) \in 1..2
        /\ stack[n].base_keyword =
              generate_query_variants(stack[n - 1].base_keyword,
                  stack[n - 1].keywords[stack[n - 1].ki])[stack[n - 1].vi].query
        /\ \E i \in 1..Len(results) :
              /\ results[i].query = stack[n].base_keyword
              /\ results[i].depth = stack[n - 1].depth
              /\ results[i].article_count < 50

C23_Opening ==
    (Len(stack) >= 1 /\ Len(stack') > Len(stack)) =>
        LET opened == stack'[Len(stack')]
            words == last_call'.words
        IN  /\ pc = "sub_topn"
            /\ last_call'.kind = "sub_topn"
            /\ Len(stack') = Len(stack) + 1
            /\ results' = results
            /\ opened.base_keyword = results[Len(results)].query
            /\ opened.depth = Top(stack).depth + 1
            /\ Len(words) >= 1
            /\ Len(opened.keywords) = (IF Len(words) < 2 THEN Len(words) ELSE 2)
            /\ \A j \in 1..Len(opened.keywords) : opened.keywords[j] = words[j]

C23_RecursionTrigger ==
    /\ [](C23_Lookup /\ C23_Activations)
    /\ [][C23_Opening]_vars

\* a lookup returned three keywords; the activation it opened has two
C23_Witness ==
    /\ pc = "search_variant"
    /\ Len(stack) = 2
    /\ last_call.kind = "sub_topn"
    /\ Len(last_call.words) = 3
    /\ Len(Top(stack).keywords) = 2

(***************************************************************************)
(* C24.  Skip-clustering branch: clustering is skipped exactly when there  *)
(* are fewer top scored keywords than cluster_count, and then the          *)
(* representative keywords are all of them in descending order of score;   *)
(* with as many keywords as cluster_count or more, clustering is           *)
(* attempted.                                                              *)
(***************************************************************************)
C24_SkipClustering ==
    pc = "explore" =>
        /\ (clustering = "skipped") <=> (Len(top_keywords) < cluster_count)
        /\ clustering \in {"skipped", "done", "failed"}
        /\ clustering = "skipped" =>
              /\ Len(representative_keywords) = Len(top_keywords)
              /\ \A i \in 1..Len(top_keywords) :
                    representative_keywords[i] = top_keywords[i].keyword
              /\ \A i, j \in 1..Len(top_keywords) :
                    i < j => ~FracLess(top_keywords[i].score, top_keywords[j].score)

\* two keywords for three clusters, the better scored one collected second
C24_Witness ==
    /\ pc = "explore"
    /\ clustering = "skipped"
    /\ Len(top_keywords) = 2
    /\ cluster_count = 3
    /\ top_keywords[1].keyword # filtered_keywords[1].keyword

(***************************************************************************)
(* C25, as stated.  With exactly cluster_count scored keywords the         *)
(* skip-clustering branch is taken and all of them are the representative  *)
(* keywords, without clustering.                                           *)
(***************************************************************************)
C25_SkipAtEqual ==
    (pc = "explore" /\ Len(top_keywords) = cluster_count) =>
        /\ clustering = "skipped"
        /\ Len(representative_keywords) = Len(top_keywords)
        /\ \A i \in 1..Len(top_keywords) :
              representative_keywords[i] = top_keywords[i].keyword

(***************************************************************************)
(* C25, amended.  With exactly cluster_count scored keywords the           *)
(* skip-clustering branch is not taken: clustering is attempted, and the   *)
(* representative keywords are what it selects or, when it fails, the      *)
(* first cluster_count scored keywords.                                    *)
(***************************************************************************)
C25_ClusterAtEqual ==
    (pc = "explore" /\ Len(top_keywords) = cluster_count) =>
        /\ clustering \in {"done", "failed"}
        /\ representative_keywords # << >>
        /\ \A i \in 1..Len(representative_keywords) :
              \E j \in 1..Len(top_keywords) :
                  representative_keywords[i] = top_keywords[j].keyword

\* as many keywords as clusters, clustered into one cluster: a single
\* representative, not all of them
C25_Witness ==
    /\ pc = "explore"
    /\ clustering = "done"
    /\ cluster_count >= 2
    /\ Len(top_keywords) = cluster_count
    /\ Len(representative_keywords) < cluster_count

(***************************************************************************)
(* C26.  Termination: when every external call is answered, the expansion  *)
(* ends and generate_related_questions returns, or the failure of a call   *)
(* that raised leaves it; until then a step can be taken, and no step      *)
(* goes back to an earlier stage.                                          *)
(***************************************************************************)
\* the stages of generate_related_questions in the order of its text; the
\* expansion is one stage
C26_Stage(position) ==
    CASE position = "search_seed" -> 0
      [] position = "related" -> 1
      [] position = "topn" -> 2
      [] position = "popular" -> 3
      [] position = "cluster" -> 4
      [] position = "explore" -> 5
      [] position \in {"search_variant", "sub_topn"} -> 6
      [] OTHER -> 7

C26_Termination ==
    /\ <>(Returned \/ Failed)
    /\ [][C26_Stage(pc') >= C26_Stage(pc)]_vars
    /\ [](Failed => last_call.answer = "raise")
    /\ [](~(Returned \/ Failed) => ENABLED Next)

\* a run that returned after a recursive activation, with budget left: its
\* candidate lists were exhausted
C26_Witness ==
    /\ Returned
    /\ "sub_topn" \in calls
    /\ results # << >>
    /\ Len(results) < max_questions

(***************************************************************************)
(* C27.  Variant searches ask for min_articles_per_query documents.  When  *)
(* the provider returns at most that many, every accumulated variant has   *)
(* article_count = min_articles_per_query; the count is then below 50, so  *)
(* whether the sub-keyword lookup follows an acceptance is decided by      *)
(* depth and budget alone, and the score of a variant is decided by its    *)
(* depth alone.                                                            *)
(***************************************************************************)
C27_AtMostSize ==
    \A i \in 1..Len(results) :
        results[i].article_count <= min_articles_per_query

C27_CountIsSize ==
    C27_AtMostSize =>
        \A i \in 1..Len(results) :
            /\ results[i].article_count = min_articles_per_query
            /\ min_articles_per_query < BroadArticleCount
                   => results[i].article_count < BroadArticleCount
            /\ \A j \in 1..Len(results) :
                 LET si == QuestionScore(results[i].article_count, results[i].depth)
                     sj == QuestionScore(results[j].article_count, results[j].depth)
                 IN  /\ results[i].depth = results[j].depth => si = sj
                     /\ results[i].depth < results[j].depth => si > sj

C27_GateStep ==
    ( /\ pc = "search_variant"
      /\ pc' # "raised"
      /\ Len(results') = Len(results) + 1
      /\ last_call'.documents <= min_articles_per_query )
        => ( pc' = "sub_topn"
               <=> /\ Top(stack).depth < max_recursion_depth - 1
                   /\ Len(results') < max_questions )

C27_SizeBoundsCount == [](C27_CountIsSize) /\ [][C27_GateStep]_vars

\* a run returned variants of depth 0 and of depth 1, each with exactly
\* min_articles_per_query articles
C27_Witness ==
    /\ Returned
    /\ C27_AtMostSize
    /\ \E i, j \in 1..Len(results) : results[i].depth = 0 /\ results[j].depth = 1

(***************************************************************************)
(* C28.  Parent before child: an accumulated variant of depth 0 has the    *)
(* seed as base; one of depth d >= 1 has as base the query of a variant of *)
(* depth d-1 that stands before it in results.  While the run goes on,     *)
(* results only grows at its end.                                          *)
(***************************************************************************)
C28_Join(type) ==
    CASE type = "AND" -> AndJoin
      [] type = "OR" -> OrJoin
      [] type = "NOT" -> NotJoin
      [] OTHER -> << >>

\* the variant is base, the joiner of its type, and an expansion keyword
C28_HasBase(variant, base) ==
    LET head == base \o C28_Join(variant.type)
    IN  /\ C28_Join(variant.type) # << >>
        /\ Len(variant.query) > Len(head)
        /\ SubSeq(variant.query, 1, Len(head)) = head

C28_Parents ==
    \A i \in 1..Len(results) :
        IF results[i].depth = 0
            THEN C28_HasBase(results[i], keyword)
            ELSE \E j \in 1..(i - 1) :
                    /\ results[j].depth = results[i].depth - 1
                    /\ C28_HasBase(results[i], results[j].query)

C28_Grows ==
    pc' # "raised" =>
        /\ Len(results') >= Len(results)
        /\ SubSeq(results', 1, Len(results)) = results

C28_ParentBeforeChild == [](C28_Parents) /\ [][C28_Grows]_vars

\* during the expansion: a seed variant, a variant based on it, and a later
\* seed variant
C28_Witness ==
    /\ pc = "search_variant"
    /\ \E i, j, k \in 1..Len(results) :
          /\ i < j /\ j < k
          /\ results[i].depth = 0
          /\ results[j].depth = 1
          /\ C28_HasBase(results[j], results[i].query)
          /\ results[k].depth = 0

(***************************************************************************)
(* C29.  In a run with max_questions >= 1 at most max_questions - 1        *)
(* sub-keyword lookups are issued: each follows an acceptance that left    *)
(* results below max_questions.                                            *)
(***************************************************************************)
C29_LookupBound ==
    /\ max_questions >= 1 => sub_lookups <= max_questions - 1
    /\ pc = "sub_topn" =>
          /\ results # << >>
          /\ Len(results) < max_questions
          /\ sub_lookups < Len(results)

\* a run that issued max_questions - 1 lookups, at least two
C29_Witness ==
    /\ Returned
    /\ max_questions >= 3
    /\ sub_lookups = max_questions - 1

(***************************************************************************)
(* C30.  Every accumulated variant has type AND, OR or NOT, so the ranker  *)
(* never draws a template at random: the accumulated variants allow one    *)
(* list to be returned, and it is the list returned.  The provider's       *)
(* answers and the clustering outcome being the inputs of a run, two runs  *)
(* with the same inputs return the same list.                              *)
(***************************************************************************)
C30_Typed ==
    \A i \in 1..Len(results) :
        /\ results[i].type \in {"AND", "OR", "NOT"}
        /\ Cardinality(TemplatesFor(results[i].type)) = 1

C30_Deterministic ==
    /\ C30_Typed
    /\ Returned => RankedLists(results, max_questions) = {result_questions}

\* a run returned questions rendered from an AND, an OR and a NOT variant
C30_Witness ==
    /\ Returned
    /\ Len(result_questions) >= 3
    /\ \A type \in {"AND", "OR", "NOT"} :
          \E k \in 1..Len(result_questions) :
              VariantOf(result_questions[k]).type = type

(***************************************************************************)
(* C21.  Two invocations on one client, interleaved at external calls,     *)
(* share no mutable state: a step of the running invocation leaves the     *)
(* suspended one's collections as they are, a suspended invocation resumes *)
(* with exactly the collections it was suspended with, and what an         *)
(* invocation accumulates and returns comes from its own seed, within its  *)
(* own budget, as when it runs alone.                                      *)
(***************************************************************************)
\* the suspended invocation's locals change only when it resumes with them
\* and the running one is suspended with its own
C21_Exchange ==
    (other' # other) =>
        /\ other' = Locals
        /\ Locals' = other

C21_OwnResults ==
    /\ C28_Parents
    /\ \A i \in 1..Len(stack) :
          stack[i].depth = 0 => stack[i].base_keyword = keyword
    /\ Len(results) <= max_questions
    /\ Returned => /\ RankedLists(results, max_questions) = {result_questions}
                   /\ Len(result_questions) <= max_questions

C21_NoSharedState == [](C21_OwnResults) /\ [][C21_Exchange]_vars

\* both invocations returned questions, after each gave way to the other in
\* the middle of its expansion
C21_Witness ==
    /\ Returned
    /\ other.pc = "done"
    /\ result_questions # << >>
    /\ other.result_questions # << >>
    /\ switches = MaxSwitches
    /\ "sub_topn" \in calls \cup other.calls

====
